---- MODULE Spec2Model ----
\* A model of OptionChainAnalyzer (src/app.py): one run of the analyzer as a
\* state machine (fetch, process, interactive strike queries), with the
\* normalisation, join, classification and scoring computed as the code
\* computes them.
EXTENDS Integers, Sequences, FiniteSets, TLC

\* ------------------------------------------------------------------ bounds
\* Strike prices of the feed range over 0..MaxStrike.
MaxStrike == 2
\* callOptions / putOptions hold at most MaxOptions entries each.
MaxOptions == 2
\* data.strikePrices holds at most MaxStrikeEntries entries.
MaxStrikeEntries == 2
\* Plain numeric option fields range over 0..MaxNum.
MaxNum == 1
\* A varied option entry departs from a plain quote in at most MaxOdd keys.
MaxOdd == 2
\* Quoted fields of the scoring feed range over 0..MaxVal.
MaxVal == 1

\* ------------------------------------------------- Python / JSON values
\* A JSON value as Python holds it after response.json(). Numbers are exact
\* integers (NaN and the infinities are outside the model).
None == [k |-> "none"]
\* A key that the dictionary does not hold.
Absent == [k |-> "absent"]
\* A non-empty JSON array (any value float() rejects with a TypeError).
List == [k |-> "list"]
\* An integer literal beyond the range of a double (e.g. 10**400).
Huge == [k |-> "huge"]
Num(n) == [k |-> "num", v |-> n]
Bool(b) == [k |-> "bool", v |-> IF b THEN 1 ELSE 0]
Str(cs) == [k |-> "str", s |-> cs]

Ok(x) == [ok |-> TRUE, v |-> x]
Raise(e) == [ok |-> FALSE, err |-> e]

DigitChars == <<"0", "1", "2", "3", "4", "5", "6", "7", "8", "9">>
IsDigit(c) == \E i \in 1..10 : DigitChars[i] = c
DigitVal(c) == (CHOOSE i \in 1..10 : DigitChars[i] = c) - 1

RECURSIVE ParseDigits(_)
ParseDigits(cs) ==
    IF cs = <<>> THEN 0
    ELSE 10 * ParseDigits(SubSeq(cs, 1, Len(cs) - 1)) + DigitVal(cs[Len(cs)])

\* float(val): the number, or the exception float() raises.
Float(val) ==
    CASE val.k = "num" -> Ok(val.v)
      [] val.k = "bool" -> Ok(val.v)
      [] val.k = "str" ->
            IF val.s # <<>> /\ \A i \in 1..Len(val.s) : IsDigit(val.s[i])
            THEN Ok(ParseDigits(val.s))
            ELSE Raise("ValueError")
      [] val.k = "huge" -> Raise("OverflowError")
      [] OTHER -> Raise("TypeError")

\* bool(val): Python truthiness, as `not val` tests it.
Truthy(val) ==
    CASE val.k = "none" -> FALSE
      [] val.k = "num" -> val.v # 0
      [] val.k = "bool" -> val.v = 1
      [] val.k = "str" -> val.s # <<>>
      [] OTHER -> TRUE

\* ------------------------------------------------------- process_options
OptionFields ==
    <<"openInterest", "impliedVolatility", "lastPrice", "bidPrice", "askPrice">>

\* safe_get(d, key, default=0): only ValueError and TypeError are caught.
safe_get(d, key, default) ==
    IF d[key] = Absent \/ d[key] = None THEN Ok(default)
    ELSE LET r == Float(d[key])
         IN  IF r.ok THEN r
             ELSE IF r.err \in {"ValueError", "TypeError"} THEN Ok(default)
             ELSE r

\* The body of the try block of process_options for one entry.
ProcessOption(opt) ==
    LET strike == IF opt.strikePrice = Absent THEN Raise("KeyError")
                  ELSE Float(opt.strikePrice)
        f == [key \in {OptionFields[i] : i \in 1..5} |-> safe_get(opt, key, 0)]
    IN  IF ~strike.ok THEN strike
        ELSE IF \E key \in DOMAIN f : ~f[key].ok
        THEN Raise("OverflowError")
        ELSE Ok([strikePrice |-> strike.v,
                 openInterest |-> f["openInterest"].v,
                 impliedVolatility |-> f["impliedVolatility"].v,
                 lastPrice |-> f["lastPrice"].v,
                 bidPrice |-> f["bidPrice"].v,
                 askPrice |-> f["askPrice"].v])

\* process_options(options): an entry whose try block raises is skipped.
RECURSIVE process_options(_)
process_options(options) ==
    IF options = <<>> THEN <<>>
    ELSE LET r == ProcessOption(Head(options))
         IN  (IF r.ok THEN <<r.v>> ELSE <<>>) \o process_options(Tail(options))

\* ------------------------------------------------------------ the merge
StrikesOf(recs) == {recs[i].strikePrice : i \in 1..Len(recs)}

RECURSIVE SortedKeys(_)
SortedKeys(S) ==
    IF S = {} THEN <<>>
    ELSE LET m == CHOOSE x \in S : \A y \in S : x <= y
         IN  <<m>> \o SortedKeys(S \ {m})

AtKey(recs, key) == SelectSeq(recs, LAMBDA r : r.strikePrice = key)

\* The columns of a side that has no record at a strike: NaN, then fillna(0).
ZeroSide ==
    [strikePrice |-> 0, openInterest |-> 0, impliedVolatility |-> 0,
     lastPrice |-> 0, bidPrice |-> 0, askPrice |-> 0]

JoinRow(key, c, p) ==
    [strikePrice |-> key,
     openInterest_call |-> c.openInterest,
     impliedVolatility_call |-> c.impliedVolatility,
     lastPrice_call |-> c.lastPrice,
     bidPrice_call |-> c.bidPrice,
     askPrice_call |-> c.askPrice,
     openInterest_put |-> p.openInterest,
     impliedVolatility_put |-> p.impliedVolatility,
     lastPrice_put |-> p.lastPrice,
     bidPrice_put |-> p.bidPrice,
     askPrice_put |-> p.askPrice]

\* The rows pd.merge(how='outer') yields for one key: every call record at
\* the key paired with every put record at the key.
RowsAtKey(calls, puts, key) ==
    LET cs == AtKey(calls, key)
        ps == AtKey(puts, key)
    IN  IF cs = <<>> THEN [j \in 1..Len(ps) |-> JoinRow(key, ZeroSide, ps[j])]
        ELSE IF ps = <<>> THEN [i \in 1..Len(cs) |-> JoinRow(key, cs[i], ZeroSide)]
        ELSE [n \in 1..(Len(cs) * Len(ps)) |->
                JoinRow(key, cs[((n - 1) \div Len(ps)) + 1],
                             ps[((n - 1) % Len(ps)) + 1])]

RECURSIVE ConcatKeys(_, _, _)
ConcatKeys(calls, puts, keys) ==
    IF keys = <<>> THEN <<>>
    ELSE RowsAtKey(calls, puts, Head(keys)) \o ConcatKeys(calls, puts, Tail(keys))

\* pd.merge(calls_df, puts_df, on='strikePrice', how='outer').fillna(0). A
\* frame built from an empty list has no strikePrice column: KeyError.
Merge(calls, puts) ==
    IF calls = <<>> \/ puts = <<>> THEN Raise("KeyError")
    ELSE Ok(ConcatKeys(calls, puts,
                       SortedKeys(StrikesOf(calls) \cup StrikesOf(puts))))

\* Moneyness with the first comparison non-strict: the ATM row falls under ITM.
MoneynessNonStrict(x, atm_strike) ==
    IF x <= atm_strike THEN "ITM" ELSE IF x > atm_strike THEN "OTM" ELSE "ATM"

\* The lambda of the moneyness column.
Moneyness(x, atm_strike) ==
    IF x < atm_strike THEN "ITM" ELSE IF x > atm_strike THEN "OTM" ELSE "ATM"

\* option_chain['strikePrice'].apply(lambda ...): comparing a float with a
\* str or a list raises TypeError.
Classify(rows, atm_strike) ==
    IF atm_strike.k \notin {"num", "bool"} THEN Raise("TypeError")
    ELSE Ok([i \in 1..Len(rows) |->
               [strikePrice |-> rows[i].strikePrice,
                openInterest_call |-> rows[i].openInterest_call,
                impliedVolatility_call |-> rows[i].impliedVolatility_call,
                lastPrice_call |-> rows[i].lastPrice_call,
                bidPrice_call |-> rows[i].bidPrice_call,
                askPrice_call |-> rows[i].askPrice_call,
                openInterest_put |-> rows[i].openInterest_put,
                impliedVolatility_put |-> rows[i].impliedVolatility_put,
                lastPrice_put |-> rows[i].lastPrice_put,
                bidPrice_put |-> rows[i].bidPrice_put,
                askPrice_put |-> rows[i].askPrice_put,
                moneyness |-> Moneyness(rows[i].strikePrice, atm_strike.v)]])

\* ---------------------------------------------------------- process_data
\* next((s['strikePrice'] for s in strikes if s.get('isAtm', False)), None)
RECURSIVE FirstAtm(_)
FirstAtm(strikes) ==
    IF strikes = <<>> THEN Ok(None)
    ELSE LET s == Head(strikes)
         IN  IF s.isAtm # Absent /\ Truthy(s.isAtm)
             THEN (IF s.strikePrice = Absent THEN Raise("KeyError")
                   ELSE Ok(s.strikePrice))
             ELSE FirstAtm(Tail(strikes))

\* Lines 66-78: the ATM strike, None when process_data gives up, or the
\* exception a missing strikePrice key raises.
FindAtm(strikes) ==
    LET first == FirstAtm(strikes)
    IN  IF ~first.ok THEN first
        ELSE IF Truthy(first.v) THEN first
        ELSE IF strikes = <<>> THEN Ok(None)
        ELSE IF strikes[1].strikePrice = Absent THEN Raise("KeyError")
        ELSE IF Truthy(strikes[1].strikePrice) THEN Ok(strikes[1].strikePrice)
        ELSE Ok(None)

\* `not raw_data` / `not data`: None or an empty JSON object.
NoData(data) == data = None \/ data.shape = "empty"

Table(rows) == [k |-> "table", rows |-> rows]

Failed == [option_chain |-> None, atm_strike |-> None,
           calls |-> <<>>, puts |-> <<>>]

\* process_data(data): the returned pair, with the locals calls and puts.
process_data(data) ==
    IF NoData(data) THEN Failed
    ELSE IF data.shape \in {"noData", "noStrikePrices"} THEN Failed
    ELSE LET atm == FindAtm(data.strikePrices)
         IN  IF ~atm.ok \/ atm.v = None THEN Failed
             ELSE IF data.shape = "noCallOptions" THEN Failed
             ELSE LET calls == process_options(data.callOptions)
                  IN  IF data.shape = "noPutOptions"
                      THEN [Failed EXCEPT !.calls = calls]
                      ELSE LET puts == process_options(data.putOptions)
                               merged == Merge(calls, puts)
                               rows == IF merged.ok
                                       THEN Classify(merged.v, atm.v)
                                       ELSE merged
                           IN  IF rows.ok
                               THEN [option_chain |-> Table(rows.v),
                                     atm_strike |-> atm.v,
                                     calls |-> calls, puts |-> puts]
                               ELSE [Failed EXCEPT !.calls = calls,
                                                   !.puts = puts]

\* -------------------------------------------------------- analyze_strike
RowsOf(chain) == chain.rows

AbsDiff(a, b) == IF a >= b THEN a - b ELSE b - a

\* NearestStrikes without .abs(): the row of the least signed difference.
NearestStrikesSigned(rows, strike) ==
    {rows[i].strikePrice : i \in
        {i \in 1..Len(rows) : \A j \in 1..Len(rows) :
            rows[i].strikePrice - strike <= rows[j].strikePrice - strike}}

\* (option_chain['strikePrice'] - strike).abs().argsort()[:1]: a row at the
\* least absolute distance; argsort does not say which one among equals.
NearestStrikes(rows, strike) ==
    {rows[i].strikePrice : i \in
        {i \in 1..Len(rows) : \A j \in 1..Len(rows) :
            AbsDiff(rows[i].strikePrice, strike)
                <= AbsDiff(rows[j].strikePrice, strike)}}

\* The dictionary analyze_strike returns for the row strike_data.iloc[0].
AnalysisOf(strike, row) ==
    [k |-> "analysis",
     strike |-> strike,
     moneyness |-> row.moneyness,
     call |-> [price |-> row.lastPrice_call,
               oi |-> row.openInterest_call,
               iv |-> row.impliedVolatility_call,
               spread |-> row.askPrice_call - row.bidPrice_call],
     put |-> [price |-> row.lastPrice_put,
              oi |-> row.openInterest_put,
              iv |-> row.impliedVolatility_put,
              spread |-> row.askPrice_put - row.bidPrice_put]]

\* analyze_strike(strike) on the table `chain`: the analysis (None when the
\* table is not loaded or the strike is not found) and the strikes it may
\* print as the nearest one.
analyze_strike(chain, strike) ==
    IF chain = None THEN [analysis |-> None, nearest |-> {}]
    ELSE LET strike_data ==
                 SelectSeq(RowsOf(chain), LAMBDA r : r.strikePrice = strike)
         IN  IF strike_data = <<>>
             THEN [analysis |-> None,
                   nearest |-> NearestStrikes(RowsOf(chain), strike)]
             ELSE [analysis |-> AnalysisOf(strike, strike_data[1]),
                   nearest |-> {}]

\* ----------------------------------------------- generate_recommendation
\* IvPoint with <= for <: a tie on implied volatility goes to the call.
IvPointNonStrict(a) == IF a.call.iv <= a.put.iv THEN "call" ELSE "put"

\* Lines 188-193: the implied-volatility point.
IvPoint(a) == IF a.call.iv < a.put.iv THEN "call" ELSE "put"

\* OiPoint with an elif for the else: a tie on open interest awards no point.
OiPointTieUnscored(a) ==
    IF a.call.oi > a.put.oi THEN "call"
    ELSE IF a.put.oi > a.call.oi THEN "put"
    ELSE "none"

\* Lines 196-201: the open-interest point.
OiPoint(a) == IF a.call.oi > a.put.oi THEN "call" ELSE "put"

\* Lines 204-209: the spread point.
SpreadPoint(a) == IF a.call.spread < a.put.spread THEN "call" ELSE "put"

Points(a) == <<IvPoint(a), OiPoint(a), SpreadPoint(a)>>

Score(points, side) == Cardinality({i \in 1..Len(points) : points[i] = side})

Factors(points) ==
    <<IF points[1] = "call" THEN "Call has lower IV"
      ELSE IF points[1] = "put" THEN "Put has lower IV" ELSE "",
      IF points[2] = "call" THEN "Call has higher OI"
      ELSE IF points[2] = "put" THEN "Put has higher OI" ELSE "",
      IF points[3] = "call" THEN "Call has tighter spread"
      ELSE IF points[3] = "put" THEN "Put has tighter spread" ELSE "">>

\* generate_recommendation(analysis): the text it returns, in its parts
\* (`shown` is the pair printed after "Score"), with the two local scores.
generate_recommendation(analysis) ==
    IF analysis = None
    THEN [k |-> "recommendation", direction |-> "No recommendation",
          call_score |-> 0, put_score |-> 0, shown |-> <<0, 0>>,
          factors |-> <<>>]
    ELSE LET points == Points(analysis)
             call_score == Score(points, "call")
             put_score == Score(points, "put")
         IN  [k |-> "recommendation",
              direction |-> IF call_score > put_score THEN "BUY CALL"
                            ELSE IF put_score > call_score THEN "BUY PUT"
                            ELSE "NEUTRAL",
              call_score |-> call_score,
              put_score |-> put_score,
              shown |-> IF call_score > put_score
                        THEN <<call_score, put_score>>
                        ELSE IF put_score > call_score
                        THEN <<put_score, call_score>>
                        ELSE <<call_score, put_score>>,
              factors |-> Factors(points)]

\* plot_data(): whether the charts are drawn; it writes no field.
plot_data(chain, spot) == ~(chain = None \/ spot = None)

\* ------------------------------------------------------------ fetch_data
\* fetch_data(): the parsed body, None for the two exceptions it catches;
\* an OSError from the debug dump is not caught.
fetch_data(server) ==
    CASE server.outcome = "ok" -> Ok(server.data)
      [] server.outcome \in {"RequestException", "JSONDecodeError"} -> Ok(None)
      [] OTHER -> Raise(server.outcome)

\* ------------------------------------------------------------- the feeds
SeqsUpTo(S, n) == UNION {[1..m -> S] : m \in 0..n}

Response(shape, strikes, callOptions, putOptions) ==
    [k |-> "response", shape |-> shape, strikePrices |-> strikes,
     callOptions |-> callOptions, putOptions |-> putOptions]

Quote(strike, oi, iv, last, bid, ask) ==
    [strikePrice |-> strike, openInterest |-> oi, impliedVolatility |-> iv,
     lastPrice |-> last, bidPrice |-> bid, askPrice |-> ask]

StrikeEntry(strike, flag) == [strikePrice |-> strike, isAtm |-> flag]

\* What the server may answer: an outcome of the GET and, when it succeeds,
\* the JSON body.
Answer(data) == [outcome |-> "ok", data |-> data]
Failure(e) == [outcome |-> e, data |-> None]

FetchFailures ==
    {Failure("RequestException"), Failure("JSONDecodeError"), Failure("OSError")}

\* A well-formed quote at strike n.
PlainQuote(n) ==
    Quote(Num(n), Num(MaxNum + n), Num(MaxNum), Num(n + 1), Num(n), Num(n + 2))

\* A chain with one call and one put at every strike.
FullCalls == [n \in 1..(MaxStrike + 1) |-> PlainQuote(n - 1)]
FullPuts == [n \in 1..(MaxStrike + 1) |-> PlainQuote(n - 1)]

\* Bodies whose shape process_data rejects.
BadShapes ==
    {Response(sh, <<StrikeEntry(Num(1), Bool(TRUE))>>, FullCalls, FullPuts) :
        sh \in {"empty", "noData", "noStrikePrices", "noCallOptions",
                "noPutOptions"}}

\* Bodies that vary data.strikePrices over a full chain; one of them gives
\* the ATM strike as a string.
StrikeRaws == {Num(n) : n \in 0..MaxStrike} \cup {None, Absent}
FlagRaws == {Bool(TRUE), Bool(FALSE)}
StrikeEntryPool ==
    {StrikeEntry(x, f) : x \in StrikeRaws, f \in FlagRaws}
    \cup {StrikeEntry(Num(1), Absent)}
AtmBodies ==
    {Response("full", st, FullCalls, FullPuts) :
        st \in SeqsUpTo(StrikeEntryPool, MaxStrikeEntries)
               \cup {<<StrikeEntry(Str(<<"1">>), Bool(TRUE))>>}}

\* Bodies that vary the two option lists: plain quotes at the lowest and the
\* highest strike, a quote at strike 1 whose fields come as strings, nulls
\* and arrays, and a quote without a strike.
OptionPool ==
    {PlainQuote(0), PlainQuote(MaxStrike),
     Quote(Str(<<"1">>), Str(<<"7">>), None, Absent, Str(<<"x">>), List),
     Quote(Absent, Num(1), Num(1), Num(1), Num(1), Num(1))}
PutPool ==
    {PlainQuote(0), PlainQuote(MaxStrike),
     Quote(Absent, Num(1), Num(1), Num(1), Num(1), Num(1))}
ChainBodies ==
    {Response("full", <<StrikeEntry(Num(1), Bool(TRUE))>>, co, po) :
        co \in SeqsUpTo(OptionPool, MaxOptions),
        po \in SeqsUpTo(PutPool, MaxOptions)}

Feeds ==
    FetchFailures
    \cup {Answer(d) : d \in BadShapes \cup AtmBodies \cup ChainBodies}

\* Bodies for the scoring: one call and one put at the ATM strike 1, their
\* quoted fields varied, and the row of the documented scenario (call IV 10
\* against put IV 20, OI 500 against 300, spread 1 against 2).
ScoreBodies ==
    {Response("full", <<StrikeEntry(Num(1), Bool(TRUE))>>,
              <<Quote(Num(1), Num(q[1]), Num(q[2]), Num(1), Num(q[3]), Num(q[4]))>>,
              <<Quote(Num(1), Num(q[5]), Num(q[6]), Num(1), Num(q[7]), Num(q[8]))>>) :
        q \in [1..8 -> 0..MaxVal]}
    \cup {Response("full", <<StrikeEntry(Num(1), Bool(TRUE))>>,
              <<Quote(Num(1), Num(500), Num(10), Num(5), Num(4), Num(5))>>,
              <<Quote(Num(1), Num(300), Num(20), Num(6), Num(4), Num(6))>>)}

ScoreFeeds == {Answer(d) : d \in ScoreBodies}

\* Bodies for the normalisation: a call entry that departs from the plain
\* quote at strike 1 in at most MaxOdd keys, each such key holding any raw
\* value, followed by a plain call at strike 0, beside one plain put.
OptionKeys ==
    {"strikePrice", "openInterest", "impliedVolatility", "lastPrice",
     "bidPrice", "askPrice"}
OptionRaws ==
    {Num(n) : n \in 0..MaxNum}
    \cup {Absent, None, List, Huge, Str(<<"7">>), Str(<<"x">>)}
OddEntries ==
    UNION {{[key \in OptionKeys |->
                IF key \in K THEN f[key] ELSE PlainQuote(1)[key]] :
              f \in [K -> OptionRaws]} :
           K \in {K \in SUBSET OptionKeys : Cardinality(K) <= MaxOdd}}
OptionBodies ==
    {Response("full", <<StrikeEntry(Num(1), Bool(TRUE))>>,
              <<e, PlainQuote(0)>>, <<PlainQuote(1)>>) : e \in OddEntries}

OptionFeeds == {Answer(d) : d \in OptionBodies}

\* What the user may type at the prompt: a strike, or text float() rejects.
StrikeInputs ==
    {Str(<<DigitChars[n + 1]>>) : n \in 0..(MaxStrike + 1)} \cup {Str(<<"x">>)}

\* ------------------------------------------------------------- the state
VARIABLES
    server,          \* what the endpoint answers in this run
    pc,              \* where run() stands
    raw_data,        \* run's local raw_data
    option_chain,    \* self.option_chain
    current_spot,    \* self.current_spot
    calls,           \* process_data's local calls
    puts,            \* process_data's local puts
    strike_input,    \* run's local strike_input, None before the first prompt
    analysis,        \* run's local analysis
    recommendation,  \* the recommendation printed by the last query
    nearest,         \* the nearest strike printed by the last query
    plotted,         \* whether the last query drew the charts
    fetch_calls,     \* number of calls of fetch_data
    process_calls,   \* number of calls of process_data
    fetched          \* whether fetch_data returned a body

vars ==
    <<server, pc, raw_data, option_chain, current_spot, calls, puts,
      strike_input, analysis, recommendation, nearest, plotted, fetch_calls, process_calls, fetched>>

\* __init__, with the endpoint's answer drawn from `answers`.
Constructed(answers) ==
    /\ server \in answers
    /\ pc = "start"
    /\ raw_data = None
    /\ option_chain = None
    /\ current_spot = None
    /\ calls = <<>>
    /\ puts = <<>>
    /\ strike_input = None
    /\ analysis = None
    /\ recommendation = None
    /\ nearest = None
    /\ plotted = FALSE
    /\ fetch_calls = 0
    /\ process_calls = 0
    /\ fetched = FALSE

Init == Constructed(Feeds)

\* RunFetch without the return at line 280: run goes on after a failed fetch.
RunFetchNoReturn ==
    /\ pc = "start"
    /\ LET r == fetch_data(server)
       IN  /\ raw_data' = IF r.ok THEN r.v ELSE None
           /\ fetched' = (r.ok /\ r.v # None)
           /\ pc' = IF ~r.ok THEN "crashed" ELSE "fetched"
    /\ fetch_calls' = fetch_calls + 1
    /\ UNCHANGED <<server, option_chain, current_spot, calls, puts,
                   strike_input, analysis, recommendation, nearest, plotted,
                   process_calls>>

\* run(), step 1 (lines 272-280): fetch, and return when nothing came back.
RunFetch ==
    /\ pc = "start"
    /\ LET r == fetch_data(server)
       IN  /\ raw_data' = IF r.ok THEN r.v ELSE None
           /\ fetched' = (r.ok /\ r.v # None)
           /\ pc' = IF ~r.ok THEN "crashed"
                    ELSE IF NoData(r.v) THEN "done"
                    ELSE "fetched"
    /\ fetch_calls' = fetch_calls + 1
    /\ UNCHANGED <<server, option_chain, current_spot, calls, puts,
                   strike_input, analysis, recommendation, nearest, plotted,
                   process_calls>>

\* run(), step 2 (lines 282-289): process, and return when no table came back.
RunProcess ==
    /\ pc = "fetched"
    /\ LET r == process_data(raw_data)
       IN  /\ option_chain' = r.option_chain
           /\ current_spot' = r.atm_strike
           /\ calls' = r.calls
           /\ puts' = r.puts
           /\ pc' = IF r.option_chain = None THEN "done" ELSE "loop"
    /\ process_calls' = process_calls + 1
    /\ UNCHANGED <<server, raw_data, strike_input, analysis, recommendation,
                   nearest, plotted, fetch_calls, fetched>>

\* The body of the loop's try block (lines 298-325) for the input `typed`:
\* what the pass leaves in analysis and what it prints and draws.
QueryEffect(typed) ==
    LET strike == Float(typed)
    IN  IF ~strike.ok
        THEN /\ UNCHANGED analysis
             /\ recommendation' = None
             /\ nearest' = None
             /\ plotted' = FALSE
        ELSE LET r == analyze_strike(option_chain, strike.v)
             IN  /\ analysis' = r.analysis
                 /\ IF r.analysis = None
                    THEN /\ recommendation' = None
                         /\ plotted' = FALSE
                         /\ IF r.nearest = {}
                            THEN nearest' = None
                            ELSE \E n \in r.nearest : nearest' = Num(n)
                    ELSE /\ recommendation' = generate_recommendation(r.analysis)
                         /\ plotted' = plot_data(option_chain, current_spot)
                         /\ nearest' = None

\* RunQuery keeping the filtered frame: the pass stores strike_data in
\* self.option_chain.
RunQueryStoresFilter ==
    /\ pc = "loop"
    /\ \E typed \in StrikeInputs :
         /\ strike_input' = typed
         /\ QueryEffect(typed)
         /\ option_chain' =
                IF Float(typed).ok
                THEN Table(SelectSeq(RowsOf(option_chain),
                           LAMBDA r : r.strikePrice = Float(typed).v))
                ELSE option_chain
    /\ UNCHANGED <<server, pc, raw_data, current_spot, calls, puts,
                   fetch_calls, process_calls, fetched>>

\* run(), one pass of the loop (lines 292-330) for an input other than 'q'.
RunQuery ==
    /\ pc = "loop"
    /\ \E typed \in StrikeInputs :
         /\ strike_input' = typed
         /\ QueryEffect(typed)
    /\ UNCHANGED <<server, pc, raw_data, option_chain, current_spot, calls,
                   puts, fetch_calls, process_calls, fetched>>

\* run(), the input 'q' (lines 294-296).
RunQuit ==
    /\ pc = "loop"
    /\ strike_input' = Str(<<"q">>)
    /\ pc' = "done"
    /\ UNCHANGED <<server, raw_data, option_chain, current_spot, calls, puts,
                   analysis, recommendation, nearest, plotted, fetch_calls,
                   process_calls, fetched>>

Next == RunFetch \/ RunProcess \/ RunQuery \/ RunQuit

Spec == Init /\ [][Next]_vars

\* The run over the scoring bodies.
InitScore == Constructed(ScoreFeeds)
SpecScore == InitScore /\ [][Next]_vars

\* The run over the normalisation bodies.
InitOptions == Constructed(OptionFeeds)
SpecOptions == InitOptions /\ [][Next]_vars

\* ------------------------------------------------------------ the claims
TableStrikes(chain) == {RowsOf(chain)[i].strikePrice : i \in 1..Len(RowsOf(chain))}

CallSideZero(row) ==
    /\ row.openInterest_call = 0 /\ row.impliedVolatility_call = 0
    /\ row.lastPrice_call = 0 /\ row.bidPrice_call = 0 /\ row.askPrice_call = 0

PutSideZero(row) ==
    /\ row.openInterest_put = 0 /\ row.impliedVolatility_put = 0
    /\ row.lastPrice_put = 0 /\ row.bidPrice_put = 0 /\ row.askPrice_put = 0

\* C1: a returned table has exactly one row per distinct strike of the kept
\* call and put records (no strike twice), and a row whose strike occurs on
\* one side only carries zeros in every field of the other side.
C1_OneRowPerStrike ==
    option_chain # None =>
        LET rows == RowsOf(option_chain)
        IN  /\ Len(rows) = Cardinality(StrikesOf(calls) \cup StrikesOf(puts))
            /\ \A i, j \in 1..Len(rows) :
                  i # j => rows[i].strikePrice # rows[j].strikePrice
            /\ \A i \in 1..Len(rows) :
                  /\ rows[i].strikePrice \notin StrikesOf(calls)
                        => CallSideZero(rows[i])
                  /\ rows[i].strikePrice \notin StrikesOf(puts)
                        => PutSideZero(rows[i])

\* C2: in a returned table every row has one label, ATM iff its strike equals
\* the returned ATM strike, ITM iff it is below it, OTM iff it is above it.
C2_MoneynessRule ==
    option_chain # None =>
        \A i \in 1..Len(RowsOf(option_chain)) :
            LET row == RowsOf(option_chain)[i]
                atm == Float(current_spot).v
            IN  /\ row.moneyness \in {"ITM", "ATM", "OTM"}
                /\ row.moneyness = "ATM" <=> row.strikePrice = atm
                /\ row.moneyness = "ITM" <=> row.strikePrice < atm
                /\ row.moneyness = "OTM" <=> row.strikePrice > atm

\* C2 witness: a returned table that holds a row of each label.
C2_AllThreeLabels ==
    /\ option_chain # None
    /\ \A m \in {"ITM", "ATM", "OTM"} :
          \E i \in 1..Len(RowsOf(option_chain)) :
              RowsOf(option_chain)[i].moneyness = m

Flagged(s) == s.isAtm # Absent /\ Truthy(s.isAtm)

\* The strike the claim C3 names: of the first flagged entry, else of the
\* first entry.
NamedAtm(strikes) ==
    IF \E i \in 1..Len(strikes) : Flagged(strikes[i])
    THEN strikes[CHOOSE i \in 1..Len(strikes) :
                    /\ Flagged(strikes[i])
                    /\ \A j \in 1..(i - 1) : ~Flagged(strikes[j])].strikePrice
    ELSE strikes[1].strikePrice

\* C3: process_data returns no table for an empty data.strikePrices, and the
\* ATM strike it returns with a table is the strikePrice of the first entry
\* flagged isAtm, or of the first entry when none is flagged.
C3_AtmIsFirstFlagged ==
    (process_calls = 1 /\ raw_data.shape = "full") =>
        /\ raw_data.strikePrices = <<>>
              => (option_chain = None /\ current_spot = None)
        /\ option_chain # None
              => current_spot = NamedAtm(raw_data.strikePrices)

\* The ATM strike is detectable: process_data finds a numeric one.
AtmDetected(strikes) ==
    LET a == FindAtm(strikes)
    IN  a.ok /\ a.v # None /\ a.v.k = "num"

\* C7: for a body with data.strikePrices, a detectable ATM strike and raw
\* entries on both sides of which at least one is kept, process_data returns
\* a table however many entries were dropped.
C7_DropsNeverFatal ==
    (/\ process_calls = 1
     /\ raw_data.shape = "full"
     /\ AtmDetected(raw_data.strikePrices)
     /\ raw_data.callOptions # <<>>
     /\ raw_data.putOptions # <<>>
     /\ (calls # <<>> \/ puts # <<>>))
        => option_chain # None

\* C8: a query for a strike that no row of the table has leaves no analysis,
\* scores nothing, prints a table strike at the least absolute distance from
\* the query, leaves the table and the ATM strike as they were and stays in
\* the loop.
C8_StrikeNotFound ==
    [][(/\ pc = "loop"
        /\ Float(strike_input').ok
        /\ Float(strike_input').v \notin TableStrikes(option_chain))
        => (/\ analysis' = None
            /\ recommendation' = None
            /\ plotted' = FALSE
            /\ nearest' # None
            /\ nearest'.v \in TableStrikes(option_chain)
            /\ \A x \in TableStrikes(option_chain) :
                  AbsDiff(nearest'.v, Float(strike_input').v)
                      <= AbsDiff(x, Float(strike_input').v)
            /\ option_chain' = option_chain
            /\ current_spot' = current_spot
            /\ pc' = "loop")]_vars

\* C8 witness: the loop stands after a query for a strike outside the table,
\* with the nearest strike printed.
C8_NotFoundServed ==
    /\ pc = "loop"
    /\ strike_input # None
    /\ Float(strike_input).ok
    /\ Float(strike_input).v \notin TableStrikes(option_chain)
    /\ nearest # None

\* C9: after a failed fetch run has ended without calling process_data, the
\* two fields are None, no query was served and fetch_data ran once.
C9_FailedFetchEndsRun ==
    (fetch_calls > 0 /\ server.outcome # "ok") =>
        /\ pc \in {"done", "crashed"}
        /\ server.outcome \in {"RequestException", "JSONDecodeError"}
              => pc = "done"
        /\ process_calls = 0
        /\ option_chain = None
        /\ current_spot = None
        /\ strike_input = None
        /\ analysis = None
        /\ recommendation = None
        /\ fetch_calls = 1

\* C9 witness: run has ended after a fetch that raised RequestException.
C9_FetchFailed ==
    /\ server.outcome = "RequestException"
    /\ fetch_calls = 1
    /\ pc = "done"

\* C10: once the table is stored no pass of the loop changes option_chain or
\* current_spot, and a strike is analysed only on a loaded table.
C10_QueriesReadOnly ==
    [][/\ pc = "loop"
          => (option_chain' = option_chain /\ current_spot' = current_spot)
       /\ analysis' # None
          => (option_chain # None /\ option_chain' # None)]_vars

\* C10 witness: a query found its strike, was scored and drawn.
C10_QueryServed ==
    /\ pc = "loop"
    /\ analysis # None
    /\ recommendation # None
    /\ plotted
    /\ option_chain # None

\* C4: every recommendation hands out three points, is never NEUTRAL, and is
\* BUY CALL when the call score is the greater one and BUY PUT otherwise.
C4_ThreePointsNeverNeutral ==
    recommendation # None =>
        /\ recommendation.call_score + recommendation.put_score = 3
        /\ recommendation.shown[1] + recommendation.shown[2] = 3
        /\ recommendation.call_score # recommendation.put_score
        /\ recommendation.direction # "NEUTRAL"
        /\ recommendation.direction =
              IF recommendation.call_score > recommendation.put_score
              THEN "BUY CALL" ELSE "BUY PUT"

\* C4 witness: a strike was scored 2-1 for the put.
C4_PutWinsTwoOne ==
    /\ recommendation # None
    /\ recommendation.direction = "BUY PUT"
    /\ recommendation.shown = <<2, 1>>

\* The row analyze_strike reads for the analysis in hand.
AnalysedRow ==
    SelectSeq(RowsOf(option_chain),
              LAMBDA r : r.strikePrice = analysis.strike)[1]

CallSpread(row) == row.askPrice_call - row.bidPrice_call
PutSpread(row) == row.askPrice_put - row.bidPrice_put

\* C5: each comparison gives its point to the call under strict inequality
\* only (lower IV, higher OI, lower ask - bid) and to the put otherwise; the
\* row of the documented scenario scores 3-0 for the call and a row whose two
\* sides are equal scores 3-0 for the put.
C5_StrictComparisons ==
    recommendation # None =>
        LET row == AnalysedRow
            ivCall == row.impliedVolatility_call < row.impliedVolatility_put
            oiCall == row.openInterest_call > row.openInterest_put
            spCall == CallSpread(row) < PutSpread(row)
            wins == Cardinality({n \in 1..3 : <<ivCall, oiCall, spCall>>[n]})
        IN  /\ recommendation.factors[1] =
                  IF ivCall THEN "Call has lower IV" ELSE "Put has lower IV"
            /\ recommendation.factors[2] =
                  IF oiCall THEN "Call has higher OI" ELSE "Put has higher OI"
            /\ recommendation.factors[3] =
                  IF spCall THEN "Call has tighter spread"
                  ELSE "Put has tighter spread"
            /\ recommendation.call_score = wins
            /\ recommendation.put_score = 3 - wins
            /\ (/\ row.impliedVolatility_call = 10
                /\ row.impliedVolatility_put = 20
                /\ row.openInterest_call = 500 /\ row.openInterest_put = 300
                /\ CallSpread(row) = 1 /\ PutSpread(row) = 2)
                  => (/\ recommendation.direction = "BUY CALL"
                      /\ recommendation.shown = <<3, 0>>)
            /\ (/\ row.impliedVolatility_call = row.impliedVolatility_put
                /\ row.openInterest_call = row.openInterest_put
                /\ CallSpread(row) = PutSpread(row))
                  => (/\ recommendation.direction = "BUY PUT"
                      /\ recommendation.shown = <<3, 0>>)

\* C5 witness: the row of the documented scenario was scored 3-0 for the call.
C5_ScenarioScored ==
    /\ recommendation # None
    /\ analysis.call.iv = 10 /\ analysis.put.iv = 20
    /\ analysis.call.oi = 500 /\ analysis.put.oi = 300
    /\ analysis.call.spread = 1 /\ analysis.put.spread = 2
    /\ recommendation.direction = "BUY CALL"
    /\ recommendation.shown = <<3, 0>>

\* Whether a raw value coerces to a float.
Coerces(val) == val # Absent /\ Float(val).ok

\* The field C6 names for a raw value: 0 when absent, null or not coercible,
\* its float value otherwise.
NamedField(val) == IF Coerces(val) THEN Float(val).v ELSE 0

NamedRecord(opt) ==
    [strikePrice |-> Float(opt.strikePrice).v,
     openInterest |-> NamedField(opt.openInterest),
     impliedVolatility |-> NamedField(opt.impliedVolatility),
     lastPrice |-> NamedField(opt.lastPrice),
     bidPrice |-> NamedField(opt.bidPrice),
     askPrice |-> NamedField(opt.askPrice)]

\* C6: process_options keeps exactly the entries whose strikePrice coerces,
\* in order, with every other field 0 when absent, null or not coercible and
\* its float value otherwise.
C6_OnlyStrikeDrops ==
    (/\ process_calls = 1
     /\ raw_data.shape = "full"
     /\ AtmDetected(raw_data.strikePrices)) =>
        LET kept == SelectSeq(raw_data.callOptions,
                              LAMBDA o : Coerces(o.strikePrice))
        IN  calls = [i \in 1..Len(kept) |-> NamedRecord(kept[i])]
====
